---- MODULE Spec2Model ----
(***************************************************************************)
(* A model of src/app.py: the gesture classifier, the distance -> volume   *)
(* mapping, the five-sample smoother, and the session state shared by the  *)
(* /video_feed frame loops (generate_frames) and the /start_camera,        *)
(* /stop_camera and /status handlers under state.lock.                     *)
(*                                                                         *)
(* Distances are held in units of 1/DUnit pixel, so that the mean of one   *)
(* to five whole-pixel samples is an integer.  Fingertip samples are       *)
(* multiples of 5 px and the probed distances are multiples of 1/4 px: on  *)
(* those values the IEEE-754 evaluation of lines 67-69 and 89-90 gives the *)
(* same results as the exact arithmetic used here.                         *)
(***************************************************************************)
EXTENDS Integers, Sequences, FiniteSets, TLC

VARIABLES
    \* GestureState (lines 37-47)
    camera_active, cap, current_gesture, gesture_quality, volume_level,
    distance, smooth_window, hand_detected, lock,
    \* the capture device and the audio endpoint
    sources, opened, VOLUME_AVAILABLE, master_db, set_calls,
    \* one generate_frames generator per /video_feed client
    pc, tracked_volume, px_dist, frame_of, avg_dist, action, quality,
    target_volume,
    \* request handler threads
    hpc, resp, seen,
    \* history of the run
    committed, pushed, freshDetect, published, frames, requests,
    \* inputs and results of the pure functions
    probe_d, probe_gesture, probe_volume

sessionVars == <<camera_active, cap, smooth_window, lock, sources, opened>>
snapVars    == <<current_gesture, gesture_quality, volume_level, distance,
                 hand_detected>>
sinkVars    == <<VOLUME_AVAILABLE, master_db, set_calls>>
streamVars  == <<pc, tracked_volume, px_dist, frame_of, avg_dist, action,
                 quality, target_volume>>
handlerVars == <<hpc, resp, seen>>
histVars    == <<committed, pushed, freshDetect, published,
                 frames, requests>>
probeVars   == <<probe_d, probe_gesture, probe_volume>>

vars == <<sessionVars, snapVars, sinkVars, streamVars, handlerVars,
          histVars, probeVars>>

----------------------------------------------------------------------------
\* Bounds of the model

MaxFrames   == 1
MaxRequests == 3
MaxPushes   == 6
MaxPx       == 210

\* the /video_feed clients and the server threads that run the handlers
Streams  == {1, 2}
Handlers == {1}

\* 1/DUnit px is the unit of every distance
DUnit == 3 * 4 * 5

\* fingertip distances (px) the landmark source reports
Samples == {10, 115}

\* system volumes the audio endpoint may start with when it is available
InitVolumes == {30}

\* distances the pure functions are probed with: 0, 1/4, 2/4, ... MaxPx px
ProbeDistances == {k * (DUnit \div 4) : k \in 0..(4 * MaxPx)}

None   == "None"
NoOne  == <<"nobody", 0>>
NoSet  == 0 - 1
NaN    == 0 - 1
NoCap  == 0

Stream(s)  == <<"stream", s>>
Handler(h) == <<"handler", h>>

----------------------------------------------------------------------------
\* Module constants (lines 51-59)

MIN_DISTANCE == 20
MAX_DISTANCE == 200
WindowLen    == 5

GESTURES ==
    << [gesture |-> "Pinch",  min_d |-> 0,   max_d |-> 30,  action |-> "Click/Select"],
       [gesture |-> "Close",  min_d |-> 30,  max_d |-> 60,  action |-> "Hold/Drag"],
       [gesture |-> "Medium", min_d |-> 60,  max_d |-> 110, action |-> "Neutral"],
       [gesture |-> "Far",    min_d |-> 110, max_d |-> 200, action |-> "Zoom+"] >>

Abs(x) == IF x < 0 THEN 0 - x ELSE x

\* the comparisons of lines 71 and 73 written >=
QualityInAtLeast(info, d) ==
    LET center2    == (info.min_d + info.max_d) * DUnit
        max_off2   == (info.max_d - info.min_d) * DUnit
        score      == 100 * max_off2 - Abs(2 * d - center2) * 50
    IN  IF score >= 80 * max_off2 THEN "Excellent"
        ELSE IF score >= 60 * max_off2 THEN "Good"
        ELSE "Fair"

\* lines 66-76: quality of distance d (1/DUnit px) inside the band info
\* quality_score = 100 - (|d - center| / max_offset) * 50, compared with 80
\* and 60; both sides are multiplied by 2 * max_offset * DUnit (> 0)
QualityIn(info, d) ==
    LET center2    == (info.min_d + info.max_d) * DUnit   \* 2 * center
        max_off2   == (info.max_d - info.min_d) * DUnit   \* 2 * max_offset
        score      == 100 * max_off2 - Abs(2 * d - center2) * 50
    IN  IF score > 80 * max_off2 THEN "Excellent"
        ELSE IF score > 60 * max_off2 THEN "Good"
        ELSE "Fair"

\* the bands taken half-open, [min_d, max_d)
RECURSIVE ClassifyFromHalfOpen(_, _)
ClassifyFromHalfOpen(i, d) ==
    IF i > Len(GESTURES) THEN <<None, None, "Fair">>
    ELSE LET info == GESTURES[i]
         IN  IF info.min_d * DUnit <= d /\ d < info.max_d * DUnit
             THEN <<info.gesture, info.action, QualityIn(info, d)>>
             ELSE ClassifyFromHalfOpen(i + 1, d)

RECURSIVE ClassifyFrom(_, _)
ClassifyFrom(i, d) ==
    IF i > Len(GESTURES) THEN <<None, None, "Fair">>
    ELSE LET info == GESTURES[i]
         IN  IF info.min_d * DUnit <= d /\ d <= info.max_d * DUnit
             THEN <<info.gesture, info.action, QualityIn(info, d)>>
             ELSE ClassifyFrom(i + 1, d)

\* lines 62-80
classify_gesture(d) == ClassifyFrom(1, d)

\* the percentage rounded to the nearest integer instead of truncated
MapRounded(d) ==
    LET d1  == IF d < MIN_DISTANCE * DUnit THEN MIN_DISTANCE * DUnit ELSE d
        d2  == IF d1 > MAX_DISTANCE * DUnit THEN MAX_DISTANCE * DUnit ELSE d1
        num == (d2 - MIN_DISTANCE * DUnit) * 100
        den == (MAX_DISTANCE - MIN_DISTANCE) * DUnit
    IN  (2 * num + den) \div (2 * den)

\* lines 83-90: the clamp, the linear map and int(np.clip(., 0, 100))
map_distance_to_volume(d) ==
    LET d1  == IF d < MIN_DISTANCE * DUnit THEN MIN_DISTANCE * DUnit ELSE d
        d2  == IF d1 > MAX_DISTANCE * DUnit THEN MAX_DISTANCE * DUnit ELSE d1
        num == (d2 - MIN_DISTANCE * DUnit) * 100
        den == (MAX_DISTANCE - MIN_DISTANCE) * DUnit
        lo  == IF num < 0 THEN 0 ELSE num
        hi  == IF lo > 100 * den THEN 100 * den ELSE lo
    IN  hi \div den

RECURSIVE SumSeq(_)
SumSeq(s) == IF s = <<>> THEN 0 ELSE Head(s) + SumSeq(Tail(s))

\* a deque without maxlen
AppendUnbounded(w, x) == Append(w, x)

\* deque(maxlen=5).append (lines 45, 161)
Append5(w, x) ==
    IF Len(w) >= WindowLen THEN Append(Tail(w), x) ELSE Append(w, x)

\* np.mean over the window (line 162), in 1/DUnit px; nan on an empty window
MeanOf(w) == IF w = <<>> THEN NaN ELSE (SumSeq(w) * DUnit) \div Len(w)

\* round(state.distance, 1) (line 238), in tenths of a pixel: round half even
Round1(d) ==
    LET tenth == DUnit \div 10
        q == d \div tenth
        r == d % tenth
    IN  IF 2 * r < tenth THEN q
        ELSE IF 2 * r > tenth THEN q + 1
        ELSE IF q % 2 = 0 THEN q ELSE q + 1

----------------------------------------------------------------------------
\* The audio endpoint (lines 9-24, 93-113), levels in 1/100 dB

MIN_VOL == (0 - 65) * 100
MAX_VOL == 0

\* line 98
ToDb(volume_pct) == MIN_VOL + (volume_pct * (MAX_VOL - MIN_VOL)) \div 100

\* lines 110-111
FromDb(current_db) ==
    LET pct == ((current_db - MIN_VOL) * 100) \div (MAX_VOL - MIN_VOL)
    IN  IF pct < 0 THEN 0 ELSE IF pct > 100 THEN 100 ELSE pct

\* the values get_system_volume() can return (lines 104-113)
get_system_volume ==
    IF ~VOLUME_AVAILABLE THEN {50} ELSE {FromDb(master_db), 50}

----------------------------------------------------------------------------
\* The snapshot a /status response is compared with

Snapshot(g, q, v, d, hd) ==
    [gesture |-> g, quality |-> q, volume |-> v, distance |-> d,
     hand_detected |-> hd]

CurrentSnapshot ==
    Snapshot(current_gesture, gesture_quality, volume_level, distance,
             hand_detected)

\* the last n elements of a sequence
LastN(s, n) == SubSeq(s, Len(s) - n + 1, Len(s))

Min(a, b) == IF a < b THEN a ELSE b

StatusPcs == {"status_wait", "st_read"}

\* a completed publish is recorded, and shown to the /status requests in progress
Commit(snap) ==
    /\ committed' = snap
    /\ seen' = [h \in Handlers |->
                  IF hpc[h] \in StatusPcs THEN seen[h] \cup {snap} ELSE seen[h]]

----------------------------------------------------------------------------
\* the state once the module is loaded (lines 9-49), with the frame and
\* request budgets of a run
Loaded(nframes, nrequests) ==
    /\ camera_active = FALSE
    /\ cap = NoCap
    /\ current_gesture = None
    /\ gesture_quality = "Good"
    /\ volume_level = 50
    /\ distance = 0
    /\ smooth_window = <<>>
    /\ hand_detected = FALSE
    /\ lock = NoOne
    /\ sources = {}
    /\ opened = 0
    /\ VOLUME_AVAILABLE \in BOOLEAN
    /\ master_db \in {ToDb(v) : v \in IF VOLUME_AVAILABLE THEN InitVolumes ELSE {50}}
    /\ set_calls = [last |-> NoSet, count |-> 0]
    /\ tracked_volume = [s \in Streams |-> 0]
    /\ px_dist = [s \in Streams |-> 0]
    /\ frame_of = [s \in Streams |-> NoCap]
    /\ avg_dist = [s \in Streams |-> 0]
    /\ action = [s \in Streams |-> None]
    /\ quality = [s \in Streams |-> None]
    /\ target_volume = [s \in Streams |-> 0]
    /\ hpc = [h \in Handlers |-> "idle"]
    /\ resp = [h \in Handlers |-> <<>>]
    /\ seen = [h \in Handlers |-> {}]
    /\ committed = Snapshot(None, "Good", 50, 0, FALSE)
    /\ pushed = <<>>
    /\ freshDetect = FALSE
    /\ published = FALSE
    /\ frames = nframes
    /\ requests = nrequests

Init ==
    /\ Loaded(MaxFrames, MaxRequests)
    /\ pc = [s \in Streams |-> "new"]
    /\ probe_d = 0
    /\ probe_gesture = <<>>
    /\ probe_volume = NoSet

----------------------------------------------------------------------------
\* generate_frames (lines 116-194), one generator per /video_feed client

\* line 117
StreamOpen(s) ==
    /\ pc[s] = "new"
    /\ \E v \in get_system_volume :
          tracked_volume' = [tracked_volume EXCEPT ![s] = v]
    /\ pc' = [pc EXCEPT ![s] = "loop"]
    /\ UNCHANGED <<sessionVars, snapVars, sinkVars, handlerVars, histVars,
                   probeVars, px_dist, frame_of, avg_dist, action, quality,
                   target_volume>>

\* lines 120-121 with the capture inactive: the generator goes on to build
\* and yield the placeholder (lines 123-133) inside the with block
LoopInactive(s) ==
    /\ pc[s] = "loop"
    /\ lock = NoOne
    /\ ~camera_active \/ cap = NoCap
    /\ lock' = Stream(s)
    /\ pc' = [pc EXCEPT ![s] = "ph_yield"]
    /\ UNCHANGED <<camera_active, cap, smooth_window, sources, opened,
                   snapVars, sinkVars, handlerVars, histVars, probeVars,
                   tracked_volume, px_dist, frame_of, avg_dist, action,
                   quality, target_volume>>

\* lines 120-121 with the capture active: the with block is left at once
LoopActive(s) ==
    /\ pc[s] = "loop"
    /\ lock = NoOne
    /\ camera_active /\ cap # NoCap
    /\ pc' = [pc EXCEPT ![s] = "read"]
    /\ UNCHANGED <<sessionVars, snapVars, sinkVars, handlerVars, histVars,
                   probeVars, tracked_volume, px_dist, frame_of, avg_dist,
                   action, quality, target_volume>>

\* the consumer asks for the frame after a placeholder: the generator
\* resumes after the yield of line 132, sleeps (line 134), and continue
\* (line 135) leaves the with block
PlaceholderNext(s) ==
    /\ pc[s] = "ph_yield"
    /\ lock' = IF lock = Stream(s) THEN NoOne ELSE lock
    /\ pc' = [pc EXCEPT ![s] = "loop"]
    /\ UNCHANGED <<camera_active, cap, smooth_window, sources, opened,
                   snapVars, sinkVars, handlerVars, histVars, probeVars,
                   tracked_volume, px_dist, frame_of, avg_dist, action,
                   quality, target_volume>>

\* line 137 when state.cap is None: AttributeError ends the generator
ReadNoSource(s) ==
    /\ pc[s] = "read"
    /\ cap = NoCap
    /\ pc' = [pc EXCEPT ![s] = "dead"]
    /\ UNCHANGED <<sessionVars, snapVars, sinkVars, handlerVars, histVars,
                   probeVars, tracked_volume, px_dist, frame_of, avg_dist,
                   action, quality, target_volume>>

\* a failed read handled as a frame without a hand
ReadFailClearsDetection(s) ==
    /\ pc[s] = "read"
    /\ cap # NoCap
    /\ hand_detected' = FALSE
    /\ current_gesture' = None
    /\ pc' = [pc EXCEPT ![s] = "loop"]
    /\ UNCHANGED <<sessionVars, gesture_quality, volume_level, distance,
                   sinkVars, handlerVars, histVars, probeVars,
                   tracked_volume, px_dist, frame_of, avg_dist, action,
                   quality, target_volume>>

\* lines 137-140: no frame (always so on a released source)
ReadFail(s) ==
    /\ pc[s] = "read"
    /\ cap # NoCap
    /\ pc' = [pc EXCEPT ![s] = "loop"]
    /\ UNCHANGED <<sessionVars, snapVars, sinkVars, handlerVars, histVars,
                   probeVars, tracked_volume, px_dist, frame_of, avg_dist,
                   action, quality, target_volume>>

\* lines 137-148: a frame without a hand
ReadNoHand(s) ==
    /\ pc[s] = "read"
    /\ cap \in sources
    /\ pc' = [pc EXCEPT ![s] = "nh_lock"]
    /\ UNCHANGED <<sessionVars, snapVars, sinkVars, handlerVars, histVars,
                   probeVars, tracked_volume, px_dist, frame_of, avg_dist,
                   action, quality, target_volume>>

\* lines 137-160: a frame with a hand, fingertips px pixels apart
ReadHand(s, px) ==
    /\ pc[s] = "read"
    /\ cap \in sources
    /\ frames > 0
    /\ frames' = frames - 1
    /\ px_dist' = [px_dist EXCEPT ![s] = px]
    /\ frame_of' = [frame_of EXCEPT ![s] = cap]
    /\ pc' = [pc EXCEPT ![s] = "append"]
    /\ UNCHANGED <<sessionVars, snapVars, sinkVars, handlerVars, probeVars,
                   committed, pushed, freshDetect, published,
                   requests, tracked_volume, avg_dist, action, quality,
                   target_volume>>

\* line 161
AppendSample(s) ==
    /\ pc[s] = "append"
    /\ smooth_window' = Append5(smooth_window, px_dist[s])
    /\ pushed' = Append(pushed, [px |-> px_dist[s], frame |-> frame_of[s]])
    /\ pc' = [pc EXCEPT ![s] = "mean"]
    /\ UNCHANGED <<camera_active, cap, lock, sources, opened, snapVars,
                   sinkVars, handlerVars, probeVars, committed, freshDetect, published, frames, requests, tracked_volume,
                   px_dist, frame_of, avg_dist, action, quality,
                   target_volume>>

\* no start is under way, and the window holds a sample of a frame acquired
\* from an earlier source than the one the latest start opened
StaleInWindow ==
    /\ \A h \in Handlers : hpc[h] # "s_clear"
    /\ \E i \in 1..Min(Len(smooth_window), Len(pushed)) :
        LastN(pushed, Min(Len(smooth_window), Len(pushed)))[i].frame < opened

\* lines 162-166 on an empty window: np.mean gives nan, and int(nan) in
\* map_distance_to_volume raises ValueError, which ends the generator
MeanEmpty(s) ==
    /\ pc[s] = "mean"
    /\ MeanOf(smooth_window) = NaN
    /\ pc' = [pc EXCEPT ![s] = "dead"]
    /\ UNCHANGED <<sessionVars, snapVars, sinkVars, handlerVars, histVars,
                   probeVars, tracked_volume, px_dist, frame_of, avg_dist,
                   action, quality, target_volume>>

\* lines 162-166
Mean(s) ==
    /\ pc[s] = "mean"
    /\ MeanOf(smooth_window) # NaN
    /\ LET avg == MeanOf(smooth_window)
           res == classify_gesture(avg)
       IN  /\ avg_dist' = [avg_dist EXCEPT ![s] = avg]
           /\ action' = [action EXCEPT ![s] = res[2]]
           /\ quality' = [quality EXCEPT ![s] = res[3]]
           /\ target_volume' =
                  [target_volume EXCEPT ![s] = map_distance_to_volume(avg)]
    /\ pc' = [pc EXCEPT ![s] = "hyst"]
    /\ UNCHANGED <<sessionVars, snapVars, sinkVars, handlerVars, probeVars,
                   committed, pushed, freshDetect, published, frames,
                   requests, tracked_volume, px_dist, frame_of>>

\* set_system_volume (lines 93-101): nothing when the endpoint is
\* unavailable, otherwise the level is set, or the call raises and the
\* exception is swallowed
set_system_volume(volume_pct) ==
    /\ set_calls' = [last |-> volume_pct, count |-> set_calls.count + 1]
    /\ \/ VOLUME_AVAILABLE /\ master_db' = ToDb(volume_pct)
       \/ master_db' = master_db
    /\ UNCHANGED VOLUME_AVAILABLE

\* the comparison of line 168 written >= 2
HysteresisApplyAtTwo(s) ==
    /\ pc[s] = "hyst"
    /\ Abs(target_volume[s] - tracked_volume[s]) >= 2
    /\ set_system_volume(target_volume[s])
    /\ tracked_volume' = [tracked_volume EXCEPT ![s] = target_volume[s]]
    /\ pc' = [pc EXCEPT ![s] = "pub_lock"]
    /\ UNCHANGED <<sessionVars, snapVars, handlerVars, histVars, probeVars,
                   px_dist, frame_of, avg_dist, action, quality,
                   target_volume>>

\* lines 168-170, the target is further than 2 from the tracked volume
HysteresisApply(s) ==
    /\ pc[s] = "hyst"
    /\ Abs(target_volume[s] - tracked_volume[s]) > 2
    /\ set_system_volume(target_volume[s])
    /\ tracked_volume' = [tracked_volume EXCEPT ![s] = target_volume[s]]
    /\ pc' = [pc EXCEPT ![s] = "pub_lock"]
    /\ UNCHANGED <<sessionVars, snapVars, handlerVars, histVars, probeVars,
                   px_dist, frame_of, avg_dist, action, quality,
                   target_volume>>

\* line 168, the target is within 2 of the tracked volume
HysteresisSkip(s) ==
    /\ pc[s] = "hyst"
    /\ ~(Abs(target_volume[s] - tracked_volume[s]) > 2)
    /\ pc' = [pc EXCEPT ![s] = "pub_lock"]
    /\ UNCHANGED <<sessionVars, snapVars, sinkVars, handlerVars, histVars,
                   probeVars, tracked_volume, px_dist, frame_of, avg_dist,
                   action, quality, target_volume>>

\* the locals of a frame, forgotten once the frame is published
ForgetFrame(s) ==
    /\ px_dist' = [px_dist EXCEPT ![s] = 0]
    /\ frame_of' = [frame_of EXCEPT ![s] = NoCap]
    /\ avg_dist' = [avg_dist EXCEPT ![s] = 0]
    /\ action' = [action EXCEPT ![s] = None]
    /\ quality' = [quality EXCEPT ![s] = None]
    /\ target_volume' = [target_volume EXCEPT ![s] = 0]

\* lines 172-174: the lock is taken, the gesture and the quality written
PublishBegin(s) ==
    /\ pc[s] = "pub_lock"
    /\ lock = NoOne
    /\ lock' = Stream(s)
    /\ current_gesture' = action[s]
    /\ gesture_quality' = quality[s]
    /\ pc' = [pc EXCEPT ![s] = "pub_rest"]
    /\ UNCHANGED <<camera_active, cap, smooth_window, sources, opened,
                   volume_level, distance, hand_detected, sinkVars,
                   handlerVars, histVars, probeVars, tracked_volume, px_dist,
                   frame_of, avg_dist, action, quality, target_volume>>

\* line 175
PublishVolume(s) ==
    /\ pc[s] = "pub_rest"
    /\ volume_level' = tracked_volume[s]
    /\ pc' = [pc EXCEPT ![s] = "pub_dist"]
    /\ UNCHANGED <<sessionVars, current_gesture, gesture_quality, distance,
                   hand_detected, sinkVars, handlerVars, histVars, probeVars,
                   tracked_volume, px_dist, frame_of, avg_dist, action,
                   quality, target_volume>>

\* line 176 publishing the frame's own sample instead of the smoothed
\* distance
PublishEndRaw(s) ==
    /\ pc[s] = "pub_dist"
    /\ distance' = px_dist[s] * DUnit
    /\ hand_detected' = TRUE
    /\ lock' = IF lock = Stream(s) THEN NoOne ELSE lock
    /\ Commit(Snapshot(current_gesture, gesture_quality, volume_level,
                       px_dist[s] * DUnit, TRUE))
    /\ published' = TRUE
    /\ freshDetect' = (freshDetect \/ (camera_active /\ frame_of[s] = cap))
    /\ ForgetFrame(s)
    /\ pc' = [pc EXCEPT ![s] = "loop"]
    /\ UNCHANGED <<camera_active, cap, smooth_window, sources, opened,
                   current_gesture, gesture_quality, volume_level, sinkVars,
                   hpc, resp, pushed, frames, requests, probeVars,
                   tracked_volume>>

\* lines 176-177 and the end of the with block; the frame is then drawn,
\* encoded and yielded (lines 179-194), and the consumer asks for the next
PublishEnd(s) ==
    /\ pc[s] = "pub_dist"
    /\ distance' = avg_dist[s]
    /\ hand_detected' = TRUE
    /\ lock' = IF lock = Stream(s) THEN NoOne ELSE lock
    /\ Commit(Snapshot(current_gesture, gesture_quality, volume_level,
                       avg_dist[s], TRUE))
    /\ published' = TRUE
    /\ freshDetect' = (freshDetect \/ (camera_active /\ frame_of[s] = cap))
    /\ ForgetFrame(s)
    /\ pc' = [pc EXCEPT ![s] = "loop"]
    /\ UNCHANGED <<camera_active, cap, smooth_window, sources, opened,
                   current_gesture, gesture_quality, volume_level, sinkVars,
                   hpc, resp, pushed, frames, requests, probeVars,
                   tracked_volume>>

\* lines 186-187
NoHandDetected(s) ==
    /\ pc[s] = "nh_lock"
    /\ lock = NoOne
    /\ lock' = Stream(s)
    /\ hand_detected' = FALSE
    /\ pc' = [pc EXCEPT ![s] = "nh_gesture"]
    /\ UNCHANGED <<camera_active, cap, smooth_window, sources, opened,
                   current_gesture, gesture_quality, volume_level, distance,
                   sinkVars, handlerVars, histVars, probeVars,
                   tracked_volume, px_dist, frame_of, avg_dist, action,
                   quality, target_volume>>

\* the no-hand branch also resetting the reported distance
NoHandGestureResets(s) ==
    /\ pc[s] = "nh_gesture"
    /\ current_gesture' = None
    /\ distance' = 0
    /\ lock' = IF lock = Stream(s) THEN NoOne ELSE lock
    /\ Commit(Snapshot(None, gesture_quality, volume_level, 0,
                       hand_detected))
    /\ pc' = [pc EXCEPT ![s] = "loop"]
    /\ UNCHANGED <<camera_active, cap, smooth_window, sources, opened,
                   gesture_quality, volume_level, hand_detected,
                   sinkVars, hpc, resp, pushed, freshDetect,
                   published, frames, requests, probeVars, tracked_volume,
                   px_dist, frame_of, avg_dist, action, quality,
                   target_volume>>

\* line 188 and the end of the with block; the frame is then encoded and
\* yielded (lines 190-194), and the consumer asks for the next
NoHandGesture(s) ==
    /\ pc[s] = "nh_gesture"
    /\ current_gesture' = None
    /\ lock' = IF lock = Stream(s) THEN NoOne ELSE lock
    /\ Commit(Snapshot(None, gesture_quality, volume_level, distance,
                       hand_detected))
    /\ pc' = [pc EXCEPT ![s] = "loop"]
    /\ UNCHANGED <<camera_active, cap, smooth_window, sources, opened,
                   gesture_quality, volume_level, distance, hand_detected,
                   sinkVars, hpc, resp, pushed, freshDetect,
                   published, frames, requests, probeVars, tracked_volume,
                   px_dist, frame_of, avg_dist, action, quality,
                   target_volume>>

----------------------------------------------------------------------------
\* The request handlers (lines 208-239), each run by a server thread

Kinds == {"start", "stop", "status"}

\* a request arrives and its handler runs up to the with statement
Request(h, kind) ==
    /\ hpc[h] = "idle"
    /\ requests > 0
    /\ requests' = requests - 1
    /\ hpc' = [hpc EXCEPT ![h] = kind \o "_wait"]
    /\ seen' = [seen EXCEPT ![h] = IF kind = "status" THEN {committed} ELSE {}]
    /\ resp' = [resp EXCEPT ![h] = <<>>]
    /\ UNCHANGED <<sessionVars, snapVars, sinkVars, streamVars, probeVars,
                   committed, pushed, freshDetect,
                   published, frames>>

\* start_camera with the clear of line 214 outside the if of line 211
StartNoopClears(h) ==
    /\ hpc[h] = "start_wait"
    /\ lock = NoOne
    /\ camera_active
    /\ smooth_window' = <<>>
    /\ pushed' = <<>>
    /\ resp' = [resp EXCEPT ![h] = <<"started">>]
    /\ hpc' = [hpc EXCEPT ![h] = "idle"]
    /\ UNCHANGED <<camera_active, cap, lock, sources, opened, snapVars,
                   sinkVars, streamVars, probeVars, seen, committed,
                   freshDetect, published, frames, requests>>

\* lines 210-211 and 215 with the capture active: nothing is changed, and
\* {"status": "started"} is returned
StartNoop(h) ==
    /\ hpc[h] = "start_wait"
    /\ lock = NoOne
    /\ camera_active
    /\ resp' = [resp EXCEPT ![h] = <<"started">>]
    /\ hpc' = [hpc EXCEPT ![h] = "idle"]
    /\ UNCHANGED <<sessionVars, snapVars, sinkVars, streamVars, probeVars,
                   seen, histVars>>

\* lines 210-211 with the capture inactive
StartEnter(h) ==
    /\ hpc[h] = "start_wait"
    /\ lock = NoOne
    /\ ~camera_active
    /\ lock' = Handler(h)
    /\ hpc' = [hpc EXCEPT ![h] = "s_open"]
    /\ UNCHANGED <<camera_active, cap, smooth_window, sources, opened,
                   snapVars, sinkVars, streamVars, probeVars, resp, seen,
                   histVars>>

\* lines 212-213
StartOpen(h) ==
    /\ hpc[h] = "s_open"
    /\ opened' = opened + 1
    /\ cap' = opened + 1
    /\ sources' = sources \cup {opened + 1}
    /\ camera_active' = TRUE
    /\ freshDetect' = FALSE
    /\ hpc' = [hpc EXCEPT ![h] = "s_clear"]
    /\ UNCHANGED <<smooth_window, lock, snapVars, sinkVars, streamVars,
                   probeVars, resp, seen, committed, pushed, published, frames, requests>>

\* lines 214-215: the window is cleared and the with block left
StartClear(h) ==
    /\ hpc[h] = "s_clear"
    /\ smooth_window' = <<>>
    /\ pushed' = <<>>
    /\ lock' = IF lock = Handler(h) THEN NoOne ELSE lock
    /\ resp' = [resp EXCEPT ![h] = <<"started">>]
    /\ hpc' = [hpc EXCEPT ![h] = "idle"]
    /\ UNCHANGED <<camera_active, cap, sources, opened, snapVars, sinkVars,
                   streamVars, probeVars, seen, committed, freshDetect, published, frames, requests>>

\* lines 220-221 and 226 with the capture inactive: nothing is changed, and
\* {"status": "stopped"} is returned
StopNoop(h) ==
    /\ hpc[h] = "stop_wait"
    /\ lock = NoOne
    /\ ~camera_active
    /\ resp' = [resp EXCEPT ![h] = <<"stopped">>]
    /\ hpc' = [hpc EXCEPT ![h] = "idle"]
    /\ UNCHANGED <<sessionVars, snapVars, sinkVars, streamVars, probeVars,
                   seen, histVars>>

\* lines 220-223 with the capture active
StopEnter(h) ==
    /\ hpc[h] = "stop_wait"
    /\ lock = NoOne
    /\ camera_active
    /\ lock' = Handler(h)
    /\ camera_active' = FALSE
    /\ hpc' = [hpc EXCEPT ![h] = IF cap # NoCap THEN "p_release" ELSE "p_return"]
    /\ UNCHANGED <<cap, smooth_window, sources, opened, snapVars, sinkVars,
                   streamVars, probeVars, resp, seen, histVars>>

\* stop_camera without the release of line 224
StopReleaseSkipped(h) ==
    /\ hpc[h] = "p_release"
    /\ hpc' = [hpc EXCEPT ![h] = "p_forget"]
    /\ UNCHANGED <<sessionVars, snapVars, sinkVars, streamVars, probeVars,
                   resp, seen, histVars>>

\* line 224
StopRelease(h) ==
    /\ hpc[h] = "p_release"
    /\ sources' = sources \ {cap}
    /\ hpc' = [hpc EXCEPT ![h] = "p_forget"]
    /\ UNCHANGED <<camera_active, cap, smooth_window, lock, opened, snapVars,
                   sinkVars, streamVars, probeVars, resp, seen, histVars>>

\* lines 225-226: the handle is forgotten and the with block left
StopForget(h) ==
    /\ hpc[h] \in {"p_forget", "p_return"}
    /\ cap' = IF hpc[h] = "p_forget" THEN NoCap ELSE cap
    /\ lock' = IF lock = Handler(h) THEN NoOne ELSE lock
    /\ resp' = [resp EXCEPT ![h] = <<"stopped">>]
    /\ hpc' = [hpc EXCEPT ![h] = "idle"]
    /\ UNCHANGED <<camera_active, smooth_window, sources, opened, snapVars,
                   sinkVars, streamVars, probeVars, seen, histVars>>

\* lines 233-238: the fields in the order the dict display reads them
StatusFields ==
    <<camera_active, hand_detected, current_gesture, gesture_quality,
      volume_level, Round1(distance)>>

\* get_status without the with statement: the fields are read while another
\* thread may hold the lock
StatusEnterUnlocked(h) ==
    /\ hpc[h] = "status_wait"
    /\ resp' = [resp EXCEPT ![h] = SubSeq(StatusFields, 1, 3)]
    /\ hpc' = [hpc EXCEPT ![h] = "st_read"]
    /\ UNCHANGED <<sessionVars, snapVars, sinkVars, streamVars, probeVars,
                   seen, histVars>>

\* lines 231-235: the lock is taken and the first three fields read
StatusEnter(h) ==
    /\ hpc[h] = "status_wait"
    /\ lock = NoOne
    /\ lock' = Handler(h)
    /\ resp' = [resp EXCEPT ![h] = SubSeq(StatusFields, 1, 3)]
    /\ hpc' = [hpc EXCEPT ![h] = "st_read"]
    /\ UNCHANGED <<camera_active, cap, smooth_window, sources, opened,
                   snapVars, sinkVars, streamVars, probeVars, seen, histVars>>

\* lines 236-238: the last three fields are read and the response
\* returned, leaving the with block
StatusReturn(h) ==
    /\ hpc[h] = "st_read"
    /\ resp' = [resp EXCEPT ![h] = @ \o SubSeq(StatusFields, 4, 6)]
    /\ lock' = IF lock = Handler(h) THEN NoOne ELSE lock
    /\ hpc' = [hpc EXCEPT ![h] = "idle"]
    /\ UNCHANGED <<camera_active, cap, smooth_window, sources, opened,
                   snapVars, sinkVars, streamVars, probeVars, seen, histVars>>

----------------------------------------------------------------------------
StreamStep(s) ==
    \/ StreamOpen(s)
    \/ LoopInactive(s)
    \/ LoopActive(s)
    \/ PlaceholderNext(s)
    \/ ReadNoSource(s)
    \/ ReadFail(s)
    \/ ReadNoHand(s)
    \/ \E px \in Samples : ReadHand(s, px)
    \/ AppendSample(s)
    \/ MeanEmpty(s)
    \/ Mean(s)
    \/ HysteresisApply(s)
    \/ HysteresisSkip(s)
    \/ PublishBegin(s)
    \/ PublishVolume(s)
    \/ PublishEnd(s)
    \/ NoHandDetected(s)
    \/ NoHandGesture(s)

HandlerStep(h) ==
    \/ \E kind \in Kinds : Request(h, kind)
    \/ StartNoop(h)
    \/ StartEnter(h)
    \/ StartOpen(h)
    \/ StartClear(h)
    \/ StopNoop(h)
    \/ StopEnter(h)
    \/ StopRelease(h)
    \/ StopForget(h)
    \/ StatusEnter(h)
    \/ StatusReturn(h)

Next ==
    \/ \E s \in Streams : StreamStep(s)
    \/ \E h \in Handlers : HandlerStep(h)

Spec == Init /\ [][Next]_vars

\* runs with one more detection frame than those of Spec
DeepInit ==
    /\ Loaded(MaxFrames + 1, MaxRequests)
    /\ pc = [s \in Streams |-> "new"]
    /\ probe_d = 0
    /\ probe_gesture = <<>>
    /\ probe_volume = NoSet

DeepSpec == DeepInit /\ [][Next]_vars

----------------------------------------------------------------------------
\* Properties of the session shared by the frame loops and the handlers

\* what /status returns of a snapshot
StatusView(snap) ==
    <<snap.hand_detected, snap.gesture, snap.quality, snap.volume,
      Round1(snap.distance)>>

\* C1: the (hand_detected, gesture, quality, volume, distance) part of every
\* /status response is the snapshot left by one completed publish (or the
\* initial one) that was current at some moment of the request, never a mix
\* of two.
C1_NoTornStatus ==
    \A h \in Handlers :
        (hpc[h] = "idle" /\ Len(resp[h]) = Len(StatusFields))
            => \E snap \in seen[h] : Tail(resp[h]) = StatusView(snap)

\* a /status response that reports a detection, a publish having completed
\* while the request was in progress
C1_Witness ==
    \E h \in Handlers :
        /\ hpc[h] = "idle"
        /\ Len(resp[h]) = Len(StatusFields)
        /\ resp[h][2] = TRUE
        /\ Cardinality(seen[h]) >= 2

\* C5: on a detection frame the sink's set is called with the target, and
\* the loop's tracked volume becomes the target, if and only if the target
\* is further than 2 from the tracked volume; otherwise there is no call and
\* the tracked volume is unchanged.
C5_Hysteresis ==
    [][\A s \in Streams :
          (pc[s] = "hyst" /\ pc'[s] # "hyst") =>
              IF Abs(target_volume[s] - tracked_volume[s]) > 2
              THEN /\ set_calls'.last = target_volume[s]
                   /\ set_calls'.count = set_calls.count + 1
                   /\ tracked_volume'[s] = target_volume[s]
              ELSE /\ set_calls' = set_calls
                   /\ master_db' = master_db
                   /\ tracked_volume'[s] = tracked_volume[s]]_vars

\* a loop tracking 50 has passed line 168 with target 52, and no call of the
\* sink's set was made
C5_Witness ==
    \E s \in Streams :
        /\ pc[s] = "pub_lock"
        /\ tracked_volume[s] = 50
        /\ target_volume[s] = 52
        /\ set_calls.count = 0

\* no frame loop is between the append of line 161 and the end of its publish
Quiescent ==
    \A s \in Streams : pc[s] \notin {"append", "mean", "hyst", "pub_lock", "pub_rest", "pub_dist"}

\* C6: once a detection frame is published and no detection frame is in
\* progress, state.volume_level is the value most recently passed to the
\* sink's set, or what the sink reports when set was never called.
C6_ReportedIsLastApplied ==
    (published /\ Quiescent) =>
        IF set_calls.count = 0
        THEN volume_level \in get_system_volume
        ELSE volume_level = set_calls.last

\* C7: once a start has completed, no mean is taken over a window that holds
\* a sample of a frame acquired before the stop that preceded it.
C7_NoCarryover ==
    [][\A s \in Streams :
          (pc[s] = "mean" /\ pc'[s] = "hyst") => ~StaleInWindow]_vars

\* C8: start_camera on an active capture and stop_camera on an inactive one
\* return without changing the source handle, the open sources, the active
\* flag or the window.
C8_Idempotent ==
    [][\A h \in Handlers :
          (\/ hpc[h] = "start_wait" /\ hpc'[h] # "start_wait" /\ camera_active
           \/ hpc[h] = "stop_wait" /\ hpc'[h] # "stop_wait" /\ ~camera_active)
          => /\ hpc'[h] = "idle"
             /\ UNCHANGED <<camera_active, cap, sources, opened,
                            smooth_window>>]_vars

\* start_camera is called in an active session whose window holds samples,
\* and finds the lock free
C8_Witness ==
    \E h \in Handlers :
        /\ hpc[h] = "start_wait"
        /\ lock = NoOne
        /\ camera_active
        /\ opened = 1
        /\ smooth_window # <<>>

\* C10: after a start has activated the capture, hand_detected is false
\* until a frame of the new session is published with a hand.
C10_StartClearsDetection ==
    (camera_active /\ ~freshDetect) => ~hand_detected

\* C11: a frame without a hand leaves hand_detected false and the gesture
\* "None" when its publish ends, and its steps change neither the volume,
\* the quality or the distance of the snapshot, nor the window, the loop's
\* tracked volume or the sink (no set call).
C11_NoHandFrame ==
    [][\A s \in Streams :
          (pc[s] \in {"nh_lock", "nh_gesture"} /\ pc'[s] # pc[s]) =>
              /\ UNCHANGED <<volume_level, gesture_quality, distance,
                             smooth_window, sinkVars>>
              /\ tracked_volume'[s] = tracked_volume[s]
              /\ pc[s] = "nh_gesture" =>
                     /\ pc'[s] = "loop"
                     /\ ~hand_detected'
                     /\ current_gesture' = None]_vars

\* a frame without a hand has been published after a detection at 10 px:
\* the snapshot keeps that detection's quality, volume and distance
C11_Witness ==
    /\ published
    /\ ~hand_detected
    /\ current_gesture = None
    /\ gesture_quality = "Excellent"
    /\ distance = 10 * DUnit
    /\ smooth_window = <<10>>
    /\ set_calls.count = 1
    /\ \A s \in Streams : pc[s] \notin {"nh_lock", "nh_gesture"}

\* the call of line 169 made by this step raised inside set_system_volume:
\* the endpoint is available and its level is not the one the call asked for
SetFailed(s) ==
    /\ pc[s] = "hyst"
    /\ pc'[s] # "hyst"
    /\ set_calls'.count = set_calls.count + 1
    /\ VOLUME_AVAILABLE
    /\ master_db' # ToDb(target_volume[s])

\* C12: when the sink's set call fails on a detection frame the loop goes
\* on to publish, and its tracked volume keeps the value it had before the
\* call.
C12_FailedSetKeepsTracked ==
    [][\A s \in Streams :
          SetFailed(s) => /\ pc'[s] = "pub_lock"
                          /\ tracked_volume'[s] = tracked_volume[s]]_vars

\* C14: a frame loop never executes the read of line 137 on a released or
\* absent source, and that read never ends the loop, however stop_camera is
\* interleaved with it.
C14_StopIsCooperative ==
    [][\A s \in Streams :
          (pc[s] = "read" /\ pc'[s] # "read") =>
              /\ cap # NoCap
              /\ cap \in sources
              /\ pc'[s] # "dead"]_vars

\* C15: a frame loop holds the lock only while it reads the active flag or
\* publishes to the snapshot, never while it yields a frame or sleeps.
C15_LockOnlyToPublish ==
    \A s \in Streams :
        lock = Stream(s) => pc[s] \in {"pub_rest", "pub_dist", "nh_gesture"}

\* C16: the mean of line 162 is never taken over an empty window: at that
\* step the window holds a sample, the last of which is the one the loop
\* pushed in the same frame, unless another loop has pushed since.
C16_MeanOverSample ==
    [][\A s \in Streams :
          (pc[s] = "mean" /\ pc'[s] # "mean") =>
              /\ smooth_window # <<>>
              /\ pc'[s] = "hyst"
              /\ \E i \in 1..Len(smooth_window) :
                     smooth_window[i] = px_dist[s]]_vars

\* loop s has written the window or the snapshot in the frame it is in
Producing(s) ==
    pc[s] \in {"mean", "hyst", "pub_lock", "pub_rest", "pub_dist",
               "nh_gesture"}

\* C17: however many /video_feed clients are open, the snapshot, the
\* window and the volume are written by a single frame loop: no two loops
\* are each in a frame in which they have written them.
C17_SingleProducer ==
    \A s, t \in Streams : (Producing(s) /\ Producing(t)) => s = t

\* C18: a read that delivers no frame while the capture is active sends
\* the loop back to the top of its while, and changes neither the snapshot,
\* the window, any tracked volume nor the sink.
C18_FailedReadIsInvisible ==
    [][\A s \in Streams :
          (/\ pc[s] = "read"
           /\ pc'[s] \notin {"read", "nh_lock", "append"}
           /\ camera_active
           /\ cap # NoCap) =>
              /\ pc'[s] = "loop"
              /\ UNCHANGED <<snapVars, smooth_window, tracked_volume,
                             sinkVars>>]_vars

\* a loop is at the read of line 137 in an active session in which a
\* detection was published and no frame with a hand is left
C18_Witness ==
    \E s \in Streams :
        /\ pc[s] = "read"
        /\ camera_active
        /\ cap \in sources
        /\ hand_detected
        /\ smooth_window # <<>>
        /\ set_calls.count = 1
        /\ frames = 0

\* the reported volume is within 0..100 and within the dead band of the
\* mapping of the reported distance
VolumeMatchesDistance ==
    /\ volume_level \in 0..100
    /\ Abs(volume_level - map_distance_to_volume(distance)) <= 2

\* C19, as stated: once a detection frame has been published, the reported
\* volume is within 2 of map_distance_to_volume of the reported distance, and
\* within 0..100, in every reachable state.
C19_VolumeMatchesDistance ==
    published => VolumeMatchesDistance

\* C19, amended: the same in every reachable state in which no frame loop
\* is between the writes of lines 175 and 176 of its publish.
C19_VolumeMatchesDistanceOutsidePublish ==
    (published /\ \A s \in Streams : pc[s] # "pub_dist")
        => VolumeMatchesDistance

\* every detection frame of the run has been published, the last with a
\* volume that the dead band kept 2 away from the mapping of its distance
C19_Witness ==
    /\ published
    /\ frames = 0
    /\ \A s \in Streams : pc[s] = "loop"
    /\ Abs(volume_level - map_distance_to_volume(distance)) = 2

\* a start_camera or stop_camera handler is inside its with block
InStartStop ==
    \E h \in Handlers :
        hpc[h] \in {"s_open", "s_clear", "p_release", "p_forget", "p_return"}

\* C20: whenever no start or stop handler is inside its critical section,
\* camera_active is true exactly when a source handle is held; the open
\* sources are then that handle's alone, none when inactive, and never more
\* than one.
C20_ActiveIffSource ==
    /\ Cardinality(sources) <= 1
    /\ ~InStartStop =>
           /\ camera_active <=> (cap # NoCap)
           /\ sources = IF camera_active THEN {cap} ELSE {}

\* the capture is active again after a start, a stop and a second start
C20_Witness ==
    /\ ~InStartStop
    /\ camera_active
    /\ opened = 2
    /\ cap = 2
    /\ sources = {2}

----------------------------------------------------------------------------
\* The classifier and the volume map applied to one distance (lines 164, 166)

Classify ==
    /\ probe_gesture = <<>>
    /\ probe_gesture' = classify_gesture(probe_d)
    /\ UNCHANGED <<sessionVars, snapVars, sinkVars, streamVars, handlerVars,
                   histVars, probe_d, probe_volume>>

MapVolume ==
    /\ probe_volume = NoSet
    /\ probe_volume' = map_distance_to_volume(probe_d)
    /\ UNCHANGED <<sessionVars, snapVars, sinkVars, streamVars, handlerVars,
                   histVars, probe_d, probe_gesture>>

ProbeInit ==
    /\ Loaded(0, 0)
    /\ pc = [s \in Streams |-> "new"]
    /\ probe_d \in ProbeDistances
    /\ probe_gesture = <<>>
    /\ probe_volume = NoSet

ProbeNext == Classify \/ MapVolume

ProbeSpec == ProbeInit /\ [][ProbeNext]_vars

Px(n) == n * DUnit

\* C2: classify_gesture returns one gesture for every distance: Pinch on
\* [0,30], Close on (30,60], Medium on (60,110], Far on (110,200], each with
\* its action label, and ("None", "None", "Fair") above 200.
C2_Bands ==
    probe_gesture # <<>> =>
        LET d == probe_d
            g == <<probe_gesture[1], probe_gesture[2]>>
        IN  /\ Len(probe_gesture) = 3
            /\ (0 <= d /\ d <= Px(30)) => g = <<"Pinch", "Click/Select">>
            /\ (Px(30) < d /\ d <= Px(60)) => g = <<"Close", "Hold/Drag">>
            /\ (Px(60) < d /\ d <= Px(110)) => g = <<"Medium", "Neutral">>
            /\ (Px(110) < d /\ d <= Px(200)) => g = <<"Far", "Zoom+">>
            /\ d > Px(200) => probe_gesture = <<None, None, "Fair">>
            /\ d <= Px(200) => probe_gesture[3] \in {"Excellent", "Good", "Fair"}

\* the shared boundary 30 has been classified, as Pinch
C2_Witness == probe_d = Px(30) /\ probe_gesture # <<>> /\ probe_gesture[1] = "Pinch"

\* C3: map_distance_to_volume returns the integer part of
\* (clamp(d,20,200) - 20) * 100 / 180, within 0..100; it is non-decreasing in
\* d, 0 up to 20, 100 from 200 on, 50 at 110 and 52 at 115.
C3_VolumeMap ==
    probe_volume # NoSet =>
        LET d == probe_d
            v == probe_volume
            c == IF d < Px(20) THEN Px(20) ELSE IF d > Px(200) THEN Px(200) ELSE d
        IN  /\ v \in 0..100
            /\ v * Px(180) <= (c - Px(20)) * 100
            /\ (c - Px(20)) * 100 < (v + 1) * Px(180)
            /\ d <= Px(20) => v = 0
            /\ d >= Px(200) => v = 100
            /\ d = Px(110) => v = 50
            /\ d = Px(115) => v = 52
            /\ \A e \in ProbeDistances :
                   e <= d => map_distance_to_volume(e) <= v

\* 115 px has been mapped, to 52
C3_Witness == probe_d = Px(115) /\ probe_volume = 52

\* the band a gesture name stands for
BandOf(g) == CHOOSE i \in 1..Len(GESTURES) : GESTURES[i].gesture = g

\* C13: for a distance d matched to the band [lo,hi], with center (lo+hi)/2
\* and maxOffset (hi-lo)/2, the quality is Excellent iff |d - center| <
\* 0.4 maxOffset, Good iff 0.4 maxOffset <= |d - center| < 0.8 maxOffset, and
\* Fair otherwise; every band center is Excellent and each of 0, 30, 60, 110
\* and 200 is Fair.
C13_Quality ==
    (probe_gesture # <<>> /\ probe_gesture[1] # None) =>
        LET d    == probe_d
            band == GESTURES[BandOf(probe_gesture[1])]
            lo   == Px(band.min_d)
            hi   == Px(band.max_d)
            \* |d - center| and maxOffset, both doubled
            off2 == Abs(2 * d - (lo + hi))
            max2 == hi - lo
            q    == probe_gesture[3]
        IN  /\ lo <= d /\ d <= hi
            /\ (q = "Excellent") <=> (10 * off2 < 4 * max2)
            /\ (q = "Good") <=> (4 * max2 <= 10 * off2 /\ 10 * off2 < 8 * max2)
            /\ (q = "Fair") <=> (8 * max2 <= 10 * off2)
            /\ 2 * d = lo + hi => q = "Excellent"
            /\ d \in {Px(0), Px(30), Px(60), Px(110), Px(200)} => q = "Fair"

\* 9 px, at 0.4 maxOffset from the center of Pinch, has been classified Good
C13_Witness ==
    probe_d = Px(9) /\ probe_gesture = <<"Pinch", "Click/Select", "Good">>

----------------------------------------------------------------------------
\* The smoother fed by a single video stream, the audio endpoint being
\* unavailable

SmootherInit ==
    /\ Loaded(MaxPushes, MaxRequests)
    /\ ~VOLUME_AVAILABLE
    /\ pc = [s \in Streams |-> IF s = 1 THEN "new" ELSE "none"]
    /\ probe_d = 0
    /\ probe_gesture = <<>>
    /\ probe_volume = NoSet

SmootherSpec == SmootherInit /\ [][Next]_vars

\* the samples of the last n pushes, in arrival order
LastPushed(n) == [i \in 1..n |-> LastN(pushed, n)[i].px]

\* C4: after n >= 1 pushes since the last reset the window holds the samples
\* of the last min(n, 5) pushes in arrival order, and the smoothed distance
\* taken then is their arithmetic mean.
C4_Smoother ==
    /\ [](smooth_window = LastPushed(Min(Len(pushed), WindowLen)))
    /\ [][\A s \in Streams :
             (pc[s] = "mean" /\ pc'[s] = "hyst" /\ Len(pushed) >= 1) =>
                 LET n == Min(Len(pushed), WindowLen)
                 IN  avg_dist'[s] * n = SumSeq(LastPushed(n)) * DUnit]_vars

\* the mean has been taken after six pushes, the first of which differs from
\* the others and is no longer in the window
C4_Witness ==
    /\ Len(pushed) = WindowLen + 1
    /\ pc[1] = "hyst"
    /\ pushed[1].px = 10
    /\ smooth_window = <<115, 115, 115, 115, 115>>
    /\ avg_dist[1] = Px(115)

----------------------------------------------------------------------------
\* Progress of the handlers

\* the steps of a handler whose request has arrived
HandlerRun(h) ==
    \/ StartNoop(h)
    \/ StartEnter(h)
    \/ StartOpen(h)
    \/ StartClear(h)
    \/ StopNoop(h)
    \/ StopEnter(h)
    \/ StopRelease(h)
    \/ StopForget(h)
    \/ StatusEnter(h)
    \/ StatusReturn(h)

\* every handler thread keeps being scheduled, and gets the lock if the lock
\* is free again and again; nothing is assumed of the video streams or of
\* their consumers
FairSpec == Spec /\ \A h \in Handlers : SF_vars(HandlerRun(h))

\* C9: every /status, /start_camera and /stop_camera request eventually
\* returns.
C9_HandlersReturn ==
    \A h \in Handlers : (hpc[h] # "idle") ~> (hpc[h] = "idle")

====
